---- MODULE Spec2Model ----
(***************************************************************************)
(* Model of the Smart File Organizer (src/automation/file_organizer.py):   *)
(* the classification of a file name by extension, the directory scan,     *)
(* the per-file placement with collision renaming, the run statistics and  *)
(* the preview (dry_run=True) / commit (dry_run=False) runs.               *)
(*                                                                         *)
(* A string is a sequence of one-character strings, so that suffix, stem,  *)
(* lower-casing and the f-string formatting of the counter are computed    *)
(* character by character.  pathlib's name/suffix/stem follow CPython      *)
(* 3.4 - 3.13 (suffix is taken from the last '.', and is empty when that   *)
(* '.' is the first or the last character of the name).                    *)
(*                                                                         *)
(* The filesystem under source_dir is two levels deep: regular files and   *)
(* directories directly under source_dir, and regular files inside those   *)
(* directories.  A path is <<name>> or <<dir, name>>.  Every regular file  *)
(* carries the path it had in the initial state as its content identity.   *)
(***************************************************************************)
EXTENDS Integers, Sequences, FiniteSets, TLC

VARIABLES
  srcKind,      \* what source_dir names: "dir", "missing" or "file"
  fsFiles,      \* regular files under source_dir: path -> content identity
  fsDirs,       \* names of the directories directly under source_dir
  dry_run,      \* self.dry_run
  stats,        \* self.stats
  pc,           \* position of organize()
  files,        \* the scan result of line 79 (names)
  rest,         \* entries of files the for loop has not visited yet
  file_path,    \* loop variable of line 88 (name)
  category,     \* local of line 94
  destination,  \* local of line 96 / 112 (name inside category_dir)
  base,         \* local of line 108
  ext,          \* local of line 109
  counter,      \* local of line 110
  summaries,    \* number of _print_summary calls of the current run
  runs,         \* number of FileOrganizer instances constructed so far
  start,        \* filesystem content when the current run was constructed
  prev,         \* the previous finished run
  faults,       \* number of I/O failures the environment has produced
  other,        \* a second organize() call on the same directory, suspended
  preempted,    \* a call was suspended between its last exists() and its move
  proceed,      \* main(): the answer to the prompt of line 164
  file_name,    \* classification harness: the input name
  result        \* classification harness: get_category's answer

vars == <<srcKind, fsFiles, fsDirs, dry_run, stats, pc, files, rest, file_path,
          category, destination, base, ext, counter, summaries, runs, start,
          prev, faults, other, preempted, proceed, file_name, result>>

fsVars == <<srcKind, fsFiles, fsDirs>>

localVars == <<file_path, category, destination, base, ext, counter>>

histVars == <<runs, start, prev, other, preempted, proceed>>

catVars == <<file_name, result>>

----------------------------------------------------------------------------
\* Bounds of the model

MaxFiles == 4

MaxRuns == 2

MaxFaults == 1

MaxNameLen == 3

----------------------------------------------------------------------------
\* Strings

EmptyStr == <<>>

CATEGORIES ==
  << [name |-> <<"I", "m", "a", "g", "e", "s">>,
      exts |-> << <<".", "j", "p", "g">>,
                 <<".", "j", "p", "e", "g">>,
                 <<".", "p", "n", "g">>,
                 <<".", "g", "i", "f">>,
                 <<".", "b", "m", "p">>,
                 <<".", "s", "v", "g">>,
                 <<".", "w", "e", "b", "p">> >>],
     [name |-> <<"D", "o", "c", "u", "m", "e", "n", "t", "s">>,
      exts |-> << <<".", "p", "d", "f">>,
                 <<".", "d", "o", "c">>,
                 <<".", "d", "o", "c", "x">>,
                 <<".", "t", "x", "t">>,
                 <<".", "x", "l", "s", "x">>,
                 <<".", "p", "p", "t", "x">>,
                 <<".", "o", "d", "t">> >>],
     [name |-> <<"V", "i", "d", "e", "o", "s">>,
      exts |-> << <<".", "m", "p", "4">>,
                 <<".", "a", "v", "i">>,
                 <<".", "m", "k", "v">>,
                 <<".", "m", "o", "v">>,
                 <<".", "w", "m", "v">>,
                 <<".", "f", "l", "v">>,
                 <<".", "w", "e", "b", "m">> >>],
     [name |-> <<"A", "u", "d", "i", "o">>,
      exts |-> << <<".", "m", "p", "3">>,
                 <<".", "w", "a", "v">>,
                 <<".", "f", "l", "a", "c">>,
                 <<".", "a", "a", "c">>,
                 <<".", "o", "g", "g">>,
                 <<".", "w", "m", "a">> >>],
     [name |-> <<"A", "r", "c", "h", "i", "v", "e", "s">>,
      exts |-> << <<".", "z", "i", "p">>,
                 <<".", "r", "a", "r">>,
                 <<".", "7", "z">>,
                 <<".", "t", "a", "r">>,
                 <<".", "g", "z">>,
                 <<".", "b", "z", "2">> >>],
     [name |-> <<"C", "o", "d", "e">>,
      exts |-> << <<".", "p", "y">>,
                 <<".", "j", "s">>,
                 <<".", "h", "t", "m", "l">>,
                 <<".", "c", "s", "s">>,
                 <<".", "j", "a", "v", "a">>,
                 <<".", "c", "p", "p">>,
                 <<".", "c">>,
                 <<".", "h">> >>],
     [name |-> <<"E", "x", "e", "c", "u", "t", "a", "b", "l", "e", "s">>,
      exts |-> << <<".", "e", "x", "e">>,
                 <<".", "m", "s", "i">>,
                 <<".", "a", "p", "k">>,
                 <<".", "a", "p", "p">>,
                 <<".", "d", "e", "b">>,
                 <<".", "r", "p", "m">> >>] >>

Lower(c) ==
  CASE c = "A" -> "a"
    [] c = "B" -> "b"
    [] c = "C" -> "c"
    [] c = "D" -> "d"
    [] c = "E" -> "e"
    [] c = "F" -> "f"
    [] c = "G" -> "g"
    [] c = "H" -> "h"
    [] c = "I" -> "i"
    [] c = "J" -> "j"
    [] c = "K" -> "k"
    [] c = "L" -> "l"
    [] c = "M" -> "m"
    [] c = "N" -> "n"
    [] c = "O" -> "o"
    [] c = "P" -> "p"
    [] c = "Q" -> "q"
    [] c = "R" -> "r"
    [] c = "S" -> "s"
    [] c = "T" -> "t"
    [] c = "U" -> "u"
    [] c = "V" -> "v"
    [] c = "W" -> "w"
    [] c = "X" -> "x"
    [] c = "Y" -> "y"
    [] c = "Z" -> "z"
    [] OTHER -> c

OthersName == <<"O", "t", "h", "e", "r", "s">>

SelfName == <<"f", "i", "l", "e", "_", "o", "r", "g", "a", "n", "i", "z", "e", "r", ".", "p", "y">>

N_a_jpg == <<"a", ".", "j", "p", "g">>

N_b_mp3 == <<"b", ".", "m", "p", "3">>

N_c_unknownext == <<"c", ".", "u", "n", "k", "n", "o", "w", "n", "e", "x", "t">>

N_d == <<"d">>

N_report_txt == <<"r", "e", "p", "o", "r", "t", ".", "t", "x", "t">>

N_report_1_txt == <<"r", "e", "p", "o", "r", "t", "_", "1", ".", "t", "x", "t">>

N_report_2_txt == <<"r", "e", "p", "o", "r", "t", "_", "2", ".", "t", "x", "t">>

N_Documents == <<"D", "o", "c", "u", "m", "e", "n", "t", "s">>

N_Images == <<"I", "m", "a", "g", "e", "s">>

N_Audio == <<"A", "u", "d", "i", "o">>

N_Code == <<"C", "o", "d", "e">>


\* str.lower() on ASCII text
LowerStr(s) == [i \in 1..Len(s) |-> Lower(s[i])]

\* str.rfind('.') of pathlib's suffix, shifted to 1-based positions:
\* the position of the last '.' among the first n characters, 0 if none
RECURSIVE RFindDot(_, _)
RFindDot(s, n) ==
  IF n = 0 THEN 0
  ELSE IF s[n] = "." THEN n
  ELSE RFindDot(s, n - 1)

\* Path(s).name for a single path component: Path(".") has the empty name
PathName(s) == IF s = <<".">> THEN EmptyStr ELSE s

\* PurePath.suffix: name[i:] when 0 < i < len(name) - 1 (0-based i), else ''
Suffix(name) ==
  LET i == RFindDot(name, Len(name))
  IN  IF 1 < i /\ i < Len(name) THEN SubSeq(name, i, Len(name)) ELSE EmptyStr

\* PurePath.stem: the name without its suffix
Stem(name) ==
  LET i == RFindDot(name, Len(name))
  IN  IF 1 < i /\ i < Len(name) THEN SubSeq(name, 1, i - 1) ELSE name

\* `extension in extensions` on a list
InList(x, list) == \E k \in 1..Len(list) : list[k] = x

\* the for loop of lines 58-62, from the i-th entry of CATEGORIES on
RECURSIVE CategoryFrom(_, _)
CategoryFrom(extension, i) ==
  IF i > Len(CATEGORIES) THEN OthersName
  ELSE IF InList(extension, CATEGORIES[i].exts) THEN CATEGORIES[i].name
  ELSE CategoryFrom(extension, i + 1)

\* get_category without the .lower() of line 56
get_category_NoLower(name) == CategoryFrom(Suffix(PathName(name)), 1)

\* get_category whose loop misses the first entry of CATEGORIES
get_category_SkipFirst(name) == CategoryFrom(LowerStr(Suffix(PathName(name))), 2)

\* FileOrganizer.get_category
get_category(name) == CategoryFrom(LowerStr(Suffix(PathName(name))), 1)

DigitChar == <<"0", "1", "2", "3", "4", "5", "6", "7", "8", "9">>

\* the decimal text of a natural number, as the f-string formats counter
RECURSIVE IntStr(_)
IntStr(n) ==
  IF n < 10 THEN <<DigitChar[n + 1]>>
  ELSE IntStr(n \div 10) \o <<DigitChar[(n % 10) + 1]>>

\* f"{base}_{counter}{ext}"
RenamedName(b, n, e) == b \o <<"_">> \o IntStr(n) \o e

----------------------------------------------------------------------------
\* The filesystem

RootPath(name) == <<name>>

\* category_dir / name, relative to source_dir
SubPath(dir, name) == <<dir, name>>

\* the regular files directly under source_dir
RootFiles(fls) == {p[1] : p \in {q \in DOMAIN fls : Len(q) = 1}}

\* exists() asked of the source directory instead of category_dir
Exists_InRoot(fls, dir, name) == RootPath(name) \in DOMAIN fls

\* Path.exists() of a path inside a directory under source_dir
Exists(fls, dir, name) == SubPath(dir, name) \in DOMAIN fls

\* Path.mkdir(exist_ok=True) succeeds unless the name is taken by a regular file
MkdirOk(fls, dir) == RootPath(dir) \notin DOMAIN fls

\* a copy instead of a move: the source file stays
MoveFile_Copy(fls, src, dst) ==
  [p \in DOMAIN fls \cup {dst} |-> IF p = dst THEN fls[src] ELSE fls[p]]

\* shutil.move(src, dst): dst is replaced when it is an existing regular file
MoveFile(fls, src, dst) ==
  [p \in (DOMAIN fls \ {src}) \cup {dst} |-> IF p = dst THEN fls[src] ELSE fls[p]]

Snapshot == [files |-> fsFiles, dirs |-> fsDirs]

----------------------------------------------------------------------------
\* Initial states

\* names a regular file directly under source_dir may have
RootNames ==
  {N_a_jpg, N_b_mp3, N_c_unknownext, N_d, N_report_txt, N_report_1_txt,
   OthersName, SelfName}

\* regular files that may already lie in a subdirectory
PreFiles ==
  {SubPath(N_Documents, N_report_txt), SubPath(N_Documents, N_report_1_txt),
   SubPath(OthersName, N_d)}

\* directories that may already exist, empty
PreDirs == {N_Images}

\* self.stats of __init__
ZeroStats == [moved |-> 0, skipped |-> 0, errors |-> 0]

NoSnapshot == [files |-> <<>>, dirs |-> {}]

NoPrev ==
  [valid |-> FALSE, dry_run |-> TRUE, stats |-> ZeroStats, summaries |-> 0,
   start |-> NoSnapshot, end |-> NoSnapshot]

\* no second call
NoOther ==
  [dry_run |-> TRUE, stats |-> ZeroStats, pc |-> "idle", files |-> {}, rest |-> {},
   file_path |-> EmptyStr, category |-> EmptyStr, destination |-> EmptyStr,
   base |-> EmptyStr, ext |-> EmptyStr, counter |-> 0, summaries |-> 0]

\* the prompt of line 164 has not been answered
NotAsked == [asked |-> FALSE, text |-> EmptyStr]

\* no FileOrganizer exists yet
InitRun ==
  /\ dry_run = TRUE
  /\ stats = ZeroStats
  /\ pc = "idle"
  /\ files = {}
  /\ rest = {}
  /\ file_path = EmptyStr
  /\ category = EmptyStr
  /\ destination = EmptyStr
  /\ base = EmptyStr
  /\ ext = EmptyStr
  /\ counter = 0
  /\ summaries = 0
  /\ runs = 0
  /\ start = NoSnapshot
  /\ prev = NoPrev
  /\ faults = 0
  /\ other = NoOther
  /\ preempted = FALSE
  /\ proceed = NotAsked

InitFs ==
  \/ /\ srcKind \in {"missing", "file"}
     /\ fsFiles = <<>>
     /\ fsDirs = {}
  \/ /\ srcKind = "dir"
     /\ \E root \in SUBSET RootNames, pre \in SUBSET PreFiles, empty \in SUBSET PreDirs :
          LET dirs == {p[1] : p \in pre} \cup empty
              paths == {RootPath(n) : n \in root} \cup pre
          IN  /\ Cardinality(root) <= MaxFiles
              /\ root \cap dirs = {}
              /\ fsFiles = [p \in paths |-> p]
              /\ fsDirs = dirs

Init ==
  /\ InitFs
  /\ InitRun
  /\ file_name = EmptyStr
  /\ result = EmptyStr

----------------------------------------------------------------------------
\* FileOrganizer.__init__ and FileOrganizer.organize

ClearLocals ==
  /\ file_path' = EmptyStr
  /\ category' = EmptyStr
  /\ destination' = EmptyStr
  /\ base' = EmptyStr
  /\ ext' = EmptyStr
  /\ counter' = 0

\* line 102 without its test: the preview mutates as well
Mutating_Always(dr) == TRUE

\* `if not self.dry_run` of line 102
Mutating(dr) == ~dr

\* line 120 without its increment
DryRunCount_Forgotten(s) == s

\* line 120: the preview counts the file as moved
DryRunCount(s) == [s EXCEPT !.moved = @ + 1]

\* a new FileOrganizer(source_dir, dry_run) and the call of organize();
\* the run before it, if it returned, is remembered in prev
NewOrganizer(dr) ==
  /\ pc \in {"idle", "done", "raised"}
  /\ runs < MaxRuns
  /\ dry_run' = dr
  /\ stats' = ZeroStats
  /\ pc' = "scan"
  /\ files' = {}
  /\ rest' = {}
  /\ summaries' = 0
  /\ runs' = runs + 1
  /\ start' = Snapshot
  /\ prev' = IF pc = "done"
             THEN [valid |-> TRUE, dry_run |-> dry_run, stats |-> stats,
                   summaries |-> summaries, start |-> start, end |-> Snapshot]
             ELSE NoPrev
  /\ ClearLocals
  /\ UNCHANGED <<fsVars, faults, other, preempted, catVars>>

\* a run started by a caller other than main()
Construct(dr) ==
  /\ NewOrganizer(dr)
  /\ UNCHANGED proceed

\* a scan that takes a missing directory for an empty one
ScanRaises_Never == FALSE

\* line 79: iterdir() raises when source_dir is not a directory
ScanRaises == srcKind # "dir"

\* lines 79-85: the scan; an empty scan returns at line 83
Scan ==
  /\ pc = "scan"
  /\ IF ScanRaises
     THEN /\ pc' = "raised"
          /\ UNCHANGED <<files, rest>>
     ELSE /\ files' = RootFiles(fsFiles)
          /\ rest' = files'
          /\ pc' = IF files' = {} THEN "done" ELSE "for"
  /\ UNCHANGED <<fsVars, dry_run, stats, localVars, summaries, histVars, faults, catVars>>

\* line 96 with file_path.stem for file_path.name
InitialDestination_Stem(name) == Stem(name)

\* line 96: destination = category_dir / file_path.name
InitialDestination(name) == name

\* line 91 without its test
IsSelf_Never(name) == FALSE

\* line 91: is the entry the organizer script itself
IsSelf(name) == name = SelfName

\* lines 88-102, 119-120: the next entry of the scan, in the order the
\* directory listing happens to have
ForNext(f) ==
  /\ pc = "for"
  /\ f \in rest
  /\ rest' = rest \ {f}
  /\ IF IsSelf(f)
     THEN /\ pc' = "for"
          /\ UNCHANGED <<stats, localVars>>
     ELSE /\ file_path' = f
          /\ category' = get_category(f)
          /\ destination' = InitialDestination(f)
          /\ UNCHANGED <<base, ext, counter>>
          /\ IF Mutating(dry_run)
             THEN /\ pc' = "mkdir"
                  /\ UNCHANGED stats
             ELSE /\ pc' = "for"
                  /\ stats' = DryRunCount(stats)
  /\ UNCHANGED <<fsVars, dry_run, files, summaries, histVars, faults, catVars>>

\* line 88: the scan is exhausted
ForEnd ==
  /\ pc = "for"
  /\ rest = {}
  /\ pc' = "summary"
  /\ ClearLocals
  /\ UNCHANGED <<fsVars, dry_run, stats, files, rest, summaries, histVars, faults, catVars>>

\* line 104: category_dir.mkdir(exist_ok=True)
Mkdir ==
  /\ pc = "mkdir"
  /\ IF MkdirOk(fsFiles, category)
     THEN /\ fsDirs' = fsDirs \cup {category}
          /\ pc' = "if_exists"
     ELSE /\ pc' = "except"
          /\ UNCHANGED fsDirs
  /\ UNCHANGED <<srcKind, fsFiles, dry_run, stats, files, rest, localVars, summaries, histVars, faults, catVars>>

\* counter = 1 of line 110
FirstCounter == 1

\* lines 107-110
IfExists ==
  /\ pc = "if_exists"
  /\ IF Exists(fsFiles, category, destination)
     THEN /\ base' = Stem(destination)
          /\ ext' = Suffix(destination)
          /\ counter' = FirstCounter
          /\ pc' = "while"
     ELSE /\ pc' = "move"
          /\ UNCHANGED <<base, ext, counter>>
  /\ UNCHANGED <<fsVars, dry_run, stats, files, rest, file_path, category, destination, summaries, histVars, faults, catVars>>

\* the loop taking stem and suffix from the last candidate instead of base
\* and ext: the suffixes pile up
While_Stacking ==
  /\ pc = "while"
  /\ IF Exists(fsFiles, category, destination)
     THEN /\ destination' = RenamedName(Stem(destination), counter, Suffix(destination))
          /\ counter' = counter + 1
          /\ pc' = "while"
     ELSE /\ pc' = "move"
          /\ UNCHANGED <<destination, counter>>
  /\ UNCHANGED <<fsVars, dry_run, stats, files, rest, file_path, category, base, ext, summaries, histVars, faults, catVars>>

\* an `if` for the `while` of line 111: the renamed candidate is not tested
While_Once ==
  /\ pc = "while"
  /\ IF Exists(fsFiles, category, destination)
     THEN /\ destination' = RenamedName(base, counter, ext)
          /\ counter' = counter + 1
     ELSE UNCHANGED <<destination, counter>>
  /\ pc' = "move"
  /\ UNCHANGED <<fsVars, dry_run, stats, files, rest, file_path, category, base, ext, summaries, histVars, faults, catVars>>

\* the loop without `counter += 1` of line 113
While_Stuck ==
  /\ pc = "while"
  /\ IF Exists(fsFiles, category, destination)
     THEN /\ destination' = RenamedName(base, counter, ext)
          /\ pc' = "while"
     ELSE /\ pc' = "move"
          /\ UNCHANGED destination
  /\ UNCHANGED <<fsVars, dry_run, stats, files, rest, file_path, category, base, ext, counter, summaries, histVars, faults, catVars>>

\* lines 111-114: one test of the while condition and one pass of its body
While ==
  /\ pc = "while"
  /\ IF Exists(fsFiles, category, destination)
     THEN /\ destination' = RenamedName(base, counter, ext)
          /\ counter' = counter + 1
          /\ pc' = "while"
     ELSE /\ pc' = "move"
          /\ UNCHANGED <<destination, counter>>
  /\ UNCHANGED <<fsVars, dry_run, stats, files, rest, file_path, category, base, ext, summaries, histVars, faults, catVars>>

\* lines 117-118: shutil.move fails when the source file or the target
\* directory is gone
Move ==
  /\ pc = "move"
  /\ IF RootPath(file_path) \in DOMAIN fsFiles /\ category \in fsDirs
     THEN /\ fsFiles' = MoveFile(fsFiles, RootPath(file_path), SubPath(category, destination))
          /\ stats' = [stats EXCEPT !.moved = @ + 1]
          /\ pc' = "for"
          /\ ClearLocals
     ELSE /\ pc' = "except"
          /\ UNCHANGED <<fsFiles, stats, localVars>>
  /\ UNCHANGED <<srcKind, fsDirs, dry_run, files, rest, summaries, histVars, faults, catVars>>

\* an OSError raised by the filesystem call organize() is about to make
\* (mkdir, exists or move): the call has no effect
Fault ==
  /\ pc \in {"mkdir", "if_exists", "while", "move"}
  /\ faults < MaxFaults
  /\ faults' = faults + 1
  /\ pc' = "except"
  /\ UNCHANGED <<fsVars, dry_run, stats, files, rest, localVars, summaries, histVars, catVars>>

\* a handler that counts the error and leaves the loop
Except_Abort ==
  /\ pc = "except"
  /\ stats' = [stats EXCEPT !.errors = @ + 1]
  /\ pc' = "summary"
  /\ ClearLocals
  /\ UNCHANGED <<fsVars, dry_run, files, rest, summaries, histVars, faults, catVars>>

\* lines 122-124: the handler of the per-file try block
Except ==
  /\ pc = "except"
  /\ stats' = [stats EXCEPT !.errors = @ + 1]
  /\ pc' = "for"
  /\ ClearLocals
  /\ UNCHANGED <<fsVars, dry_run, files, rest, summaries, histVars, faults, catVars>>

\* line 127 and _print_summary, then organize() returns
Summary ==
  /\ pc = "summary"
  /\ summaries' = summaries + 1
  /\ pc' = "done"
  /\ UNCHANGED <<fsVars, dry_run, stats, files, rest, localVars, histVars, faults, catVars>>

\* the steps of one organize() call
RunStep ==
  \/ Scan
  \/ \E f \in rest : ForNext(f)
  \/ ForEnd
  \/ Mkdir
  \/ IfExists
  \/ While
  \/ Move
  \/ Fault
  \/ Except
  \/ Summary

Next ==
  \/ \E dr \in BOOLEAN : Construct(dr)
  \/ Scan
  \/ \E f \in rest : ForNext(f)
  \/ ForEnd
  \/ Mkdir
  \/ IfExists
  \/ While
  \/ Move
  \/ Fault
  \/ Except
  \/ Summary

Spec == Init /\ [][Next]_vars

\* the directory contents the termination of a run is checked on: a file
\* that collides, a file that is in the way of its own category directory,
\* the organizer script, and up to two files already in Documents
LiveRootNames == {N_report_txt, OthersName, SelfName}

LivePreFiles ==
  {SubPath(N_Documents, N_report_txt), SubPath(N_Documents, N_report_1_txt)}

InitLive ==
  /\ \/ /\ srcKind \in {"missing", "file"}
        /\ fsFiles = <<>>
        /\ fsDirs = {}
     \/ /\ srcKind = "dir"
        /\ \E root \in SUBSET LiveRootNames, pre \in SUBSET LivePreFiles :
             /\ Cardinality(root) <= MaxFiles
             /\ fsFiles = [p \in {RootPath(n) : n \in root} \cup pre |-> p]
             /\ fsDirs = {p[1] : p \in pre}
  /\ InitRun
  /\ file_name = EmptyStr
  /\ result = EmptyStr

\* organize() runs to its end once called: no step of it blocks
LiveSpec == InitLive /\ [][Next]_vars /\ WF_vars(RunStep)

----------------------------------------------------------------------------
\* Scan-order harness: commit runs repeated on the same directory content,
\* each taking the scan entries in an order of its own

\* a file named like the Documents directory, two files that go to
\* Documents, a file named like the Others directory and a file that goes
\* to Others
OrderRootNames == {N_Documents, N_report_txt, N_report_1_txt, OthersName, N_d}

OrderPreFiles == {SubPath(N_Documents, N_report_txt)}

InitOrder ==
  /\ srcKind = "dir"
  /\ \E root \in SUBSET OrderRootNames, pre \in SUBSET OrderPreFiles :
       LET dirs == {p[1] : p \in pre}
       IN  /\ Cardinality(root) <= MaxFiles
           /\ root \cap dirs = {}
           /\ fsFiles = [p \in {RootPath(n) : n \in root} \cup pre |-> p]
           /\ fsDirs = dirs
  /\ InitRun
  /\ file_name = EmptyStr
  /\ result = EmptyStr

\* the first commit run
FirstCommit ==
  /\ runs = 0
  /\ Construct(FALSE)

\* the directory is set up again as the finished commit run found it, and a
\* new FileOrganizer(source_dir, dry_run=False) is run on it; prev keeps the
\* outcome of the finished run
Rerun ==
  /\ pc = "done"
  /\ ~dry_run
  /\ runs < MaxRuns
  /\ fsFiles' = start.files
  /\ fsDirs' = start.dirs
  /\ prev' = [valid |-> TRUE, dry_run |-> dry_run, stats |-> stats,
              summaries |-> summaries, start |-> start, end |-> Snapshot]
  /\ dry_run' = FALSE
  /\ stats' = ZeroStats
  /\ pc' = "scan"
  /\ files' = {}
  /\ rest' = {}
  /\ summaries' = 0
  /\ runs' = runs + 1
  /\ ClearLocals
  /\ UNCHANGED <<srcKind, start, faults, other, preempted, proceed, catVars>>

NextOrder ==
  \/ FirstCommit
  \/ Rerun
  \/ Scan
  \/ \E f \in rest : ForNext(f)
  \/ ForEnd
  \/ Mkdir
  \/ IfExists
  \/ While
  \/ Move
  \/ Fault
  \/ Except
  \/ Summary

SpecOrder == InitOrder /\ [][NextOrder]_vars

----------------------------------------------------------------------------
\* Two organize() calls on the same source directory, in two processes that
\* the operating system interleaves between any two of their steps

\* two files that go to Documents, one of them named like the first
\* renamed variant of the other, and a file that goes elsewhere
ConcRootNames == {N_report_txt, N_report_1_txt, N_a_jpg}

ConcPreFiles == {SubPath(N_Documents, N_report_txt)}

\* a FileOrganizer(source_dir, dry_run=False) whose organize() is about to scan
FreshCommit == [NoOther EXCEPT !.dry_run = FALSE, !.pc = "scan"]

\* the state of the running call, as a record
Running ==
  [dry_run |-> dry_run, stats |-> stats, pc |-> pc, files |-> files, rest |-> rest,
   file_path |-> file_path, category |-> category, destination |-> destination,
   base |-> base, ext |-> ext, counter |-> counter, summaries |-> summaries]

\* both processes have constructed their FileOrganizer
InitConc ==
  /\ srcKind = "dir"
  /\ \E root \in SUBSET ConcRootNames, pre \in SUBSET ConcPreFiles :
       /\ Cardinality(root) <= MaxFiles
       /\ fsFiles = [p \in {RootPath(n) : n \in root} \cup pre |-> p]
       /\ fsDirs = {p[1] : p \in pre}
  /\ dry_run = FreshCommit.dry_run
  /\ stats = FreshCommit.stats
  /\ pc = FreshCommit.pc
  /\ files = FreshCommit.files
  /\ rest = FreshCommit.rest
  /\ file_path = FreshCommit.file_path
  /\ category = FreshCommit.category
  /\ destination = FreshCommit.destination
  /\ base = FreshCommit.base
  /\ ext = FreshCommit.ext
  /\ counter = FreshCommit.counter
  /\ summaries = FreshCommit.summaries
  /\ other = FreshCommit
  /\ runs = 2
  /\ start = Snapshot
  /\ prev = NoPrev
  /\ faults = 0
  /\ preempted = FALSE
  /\ proceed = NotAsked
  /\ file_name = EmptyStr
  /\ result = EmptyStr

\* the running call is suspended and the other one goes on; preempted
\* records that a call was suspended after the exists() test that let it
\* leave lines 107-114 and before its shutil.move of line 117
Switch ==
  /\ other.pc \notin {"idle", "done", "raised"}
  /\ other' = Running
  /\ dry_run' = other.dry_run
  /\ stats' = other.stats
  /\ pc' = other.pc
  /\ files' = other.files
  /\ rest' = other.rest
  /\ file_path' = other.file_path
  /\ category' = other.category
  /\ destination' = other.destination
  /\ base' = other.base
  /\ ext' = other.ext
  /\ counter' = other.counter
  /\ summaries' = other.summaries
  /\ preempted' = (preempted \/ pc = "move")
  /\ UNCHANGED <<fsVars, runs, start, prev, faults, proceed, catVars>>

NextConc ==
  \/ Switch
  \/ Scan
  \/ \E f \in rest : ForNext(f)
  \/ ForEnd
  \/ Mkdir
  \/ IfExists
  \/ While
  \/ Move
  \/ Fault
  \/ Except
  \/ Summary

SpecConc == InitConc /\ [][NextConc]_vars

----------------------------------------------------------------------------
\* main(): a preview, the prompt, and a commit run if the answer says so

A_yes == <<"y", "e", "s">>

A_y == <<"y">>

A_Y == <<"Y">>

A_Yes_padded == <<" ", "Y", "e", "s", " ">>

A_no == <<"n", "o">>

A_n == <<"n">>

A_yes_please == <<"y", "e", "s", " ", "p", "l", "e", "a", "s", "e">>

\* what the user may type at the prompt of line 164
Answers == {A_yes, A_y, A_Y, A_Yes_padded, A_no, A_n, A_yes_please, EmptyStr}

IsSpace(c) == c \in {" ", "\t", "\n"}

\* str.lstrip()
RECURSIVE LStrip(_)
LStrip(t) ==
  IF t # EmptyStr /\ IsSpace(Head(t)) THEN LStrip(Tail(t)) ELSE t

\* str.rstrip()
RECURSIVE RStrip(_)
RStrip(t) ==
  IF t # EmptyStr /\ IsSpace(t[Len(t)]) THEN RStrip(SubSeq(t, 1, Len(t) - 1)) ELSE t

\* str.strip()
StripStr(t) == RStrip(LStrip(t))

\* a test for a leading 'y' in place of line 166
Proceeds_StartsWithY(a) ==
  LET t == LowerStr(StripStr(a)) IN t # EmptyStr /\ Head(t) = "y"

\* lines 164-166: input(...).strip().lower() in ['yes', 'y']
Proceeds(a) == LowerStr(StripStr(a)) \in {A_yes, A_y}

\* lines 146-161: main() runs the preview
MainPreview ==
  /\ runs = 0
  /\ NewOrganizer(TRUE)
  /\ UNCHANGED proceed

\* lines 164-172: the preview has returned; main() reads the answer and,
\* if it says yes, runs a new FileOrganizer(source, dry_run=False)
MainAnswer(a) ==
  /\ runs = 1
  /\ pc = "done"
  /\ dry_run
  /\ ~proceed.asked
  /\ proceed' = [asked |-> TRUE, text |-> a]
  /\ IF Proceeds(a)
     THEN NewOrganizer(FALSE)
     ELSE UNCHANGED <<fsVars, dry_run, stats, pc, files, rest, localVars, summaries,
                      runs, start, prev, faults, other, preempted, catVars>>

NextMain ==
  \/ MainPreview
  \/ \E a \in Answers : MainAnswer(a)
  \/ Scan
  \/ \E f \in rest : ForNext(f)
  \/ ForEnd
  \/ Mkdir
  \/ IfExists
  \/ While
  \/ Move
  \/ Fault
  \/ Except
  \/ Summary

SpecMain == InitLive /\ [][NextMain]_vars

----------------------------------------------------------------------------
\* Classification harness: get_category applied to a bounded set of names

CatAlphabet == {".", "c", "C", "h", "7", "z"}

\* all strings over CatAlphabet of length at most n
Words(n) == UNION {[1..k -> CatAlphabet] : k \in 0..n}

\* every extension of the category table
TableExts == UNION {{CATEGORIES[i].exts[k] : k \in 1..Len(CATEGORIES[i].exts)} : i \in 1..Len(CATEGORIES)}

UpperLetters ==
  {"A", "B", "C", "D", "E", "F", "G", "H", "I", "J", "K", "L", "M",
   "N", "O", "P", "Q", "R", "S", "T", "U", "V", "W", "X", "Y", "Z"}

Upper(c) == IF \E u \in UpperLetters : Lower(u) = c
            THEN CHOOSE u \in UpperLetters : Lower(u) = c
            ELSE c

UpperStr(s) == [i \in 1..Len(s) |-> Upper(s[i])]

CatPrefixes == {EmptyStr, <<"a">>, <<".">>, <<"a", ".", "b">>, <<"a", ".", "p", "y">>}

CatSuffixes == TableExts \cup {UpperStr(e) : e \in TableExts} \cup {<<".", "u", "n", "k">>}

CatInputs == Words(MaxNameLen) \cup {p \o e : p \in CatPrefixes, e \in CatSuffixes}

InitCat ==
  /\ srcKind = "dir"
  /\ fsFiles = <<>>
  /\ fsDirs = {}
  /\ InitRun
  /\ file_name \in CatInputs
  /\ result = EmptyStr

\* one call of get_category
Classify ==
  /\ result = EmptyStr
  /\ result' = get_category(file_name)
  /\ UNCHANGED <<fsVars, dry_run, stats, pc, files, rest, localVars, summaries, histVars, faults, file_name>>

NextCat == Classify

SpecCat == InitCat /\ [][NextCat]_vars

----------------------------------------------------------------------------
\* Properties

Max(S) == CHOOSE x \in S : \A y \in S : y <= x

Min(S) == CHOOSE x \in S : \A y \in S : x <= y

CommitRun == pc # "idle" /\ ~dry_run

PreviewRun == pc # "idle" /\ dry_run

\* C1: a preview run never mutates the filesystem: at every point of a run
\* with dry_run=True the files and directories under source_dir are those
\* the run started with.
C1_PreviewNeverMutates ==
  PreviewRun => /\ fsFiles = start.files
                /\ fsDirs = start.dirs

\* a finished preview that counted report.txt although Documents/report.txt
\* already exists
C1_Witness ==
  /\ PreviewRun
  /\ pc = "done"
  /\ summaries = 1
  /\ stats.moved >= 2
  /\ N_report_txt \in files
  /\ SubPath(N_Documents, N_report_txt) \in DOMAIN fsFiles

\* the paths that now hold the file that lay at path p when the run started
HoldersOf(p) == {q \in DOMAIN fsFiles : fsFiles[q] = start.files[p]}

\* C2: in a sequential commit run every move targets a path that does not
\* exist at the moment of the move, and every file present when the run
\* started still exists at exactly one path: its original path or, for a
\* file of the source directory, one destination inside a subdirectory.
C2_NeverOverwrites ==
  (CommitRun /\ srcKind = "dir") =>
    /\ pc = "move" => ~ Exists(fsFiles, category, destination)
    /\ \A p \in DOMAIN start.files :
         /\ Cardinality(HoldersOf(p)) = 1
         /\ \A q \in HoldersOf(p) : q = p \/ (Len(p) = 1 /\ Len(q) = 2)

\* report.txt and report_1.txt were both moved next to the Documents/report.txt
\* that was there before, and all three files are still on disk
C2_Witness ==
  /\ CommitRun
  /\ pc = "done"
  /\ stats.moved >= 2
  /\ SubPath(N_Documents, N_report_txt) \in DOMAIN start.files
  /\ \E q1, q2 \in DOMAIN fsFiles :
       /\ q1 # q2
       /\ q1[1] = N_Documents
       /\ q2[1] = N_Documents
       /\ fsFiles[q1] = RootPath(N_report_txt)
       /\ fsFiles[q2] = RootPath(N_report_1_txt)

\* the name the collision rule prescribes for a file called name that goes
\* to directory dir of filesystem fls
PrescribedName(fls, dir, name) ==
  LET variant(n) == RenamedName(Stem(name), n, Suffix(name))
      free == {n \in 1..(Cardinality(DOMAIN fls) + 1) :
                 SubPath(dir, variant(n)) \notin DOMAIN fls}
  IN  IF SubPath(dir, name) \notin DOMAIN fls THEN name ELSE variant(Min(free))

\* C3: a successful move of a commit run puts the file at
\* <category>/<name> when that path is free, and otherwise at
\* <category>/<stem>_<n><ext> with the original stem and the smallest
\* n >= 1 whose path does not exist.
C3_CollisionNaming ==
  [][(pc = "move" /\ stats'.moved = stats.moved + 1) =>
       LET target == SubPath(category, PrescribedName(fsFiles, category, file_path))
       IN  /\ target \notin DOMAIN fsFiles
           /\ target \in DOMAIN fsFiles'
           /\ fsFiles'[target] = fsFiles[RootPath(file_path)]
           /\ RootPath(file_path) \notin DOMAIN fsFiles'
           /\ DOMAIN fsFiles' = (DOMAIN fsFiles \ {RootPath(file_path)}) \cup {target}]_vars

\* report.txt met Documents/report.txt and Documents/report_1.txt and became
\* Documents/report_2.txt
C3_Witness ==
  /\ CommitRun
  /\ SubPath(N_Documents, N_report_2_txt) \in DOMAIN fsFiles
  /\ fsFiles[SubPath(N_Documents, N_report_2_txt)] = RootPath(N_report_txt)
  /\ SubPath(N_Documents, N_report_txt) \in DOMAIN start.files
  /\ SubPath(N_Documents, N_report_1_txt) \in DOMAIN start.files

CategoryNames == {CATEGORIES[i].name : i \in 1..Len(CATEGORIES)} \cup {OthersName}

\* the first category, in declared order, whose extension set contains e
FirstCategoryOf(e) ==
  LET hits == {i \in 1..Len(CATEGORIES) : e \in {CATEGORIES[i].exts[k] : k \in 1..Len(CATEGORIES[i].exts)}}
  IN  IF hits = {} THEN OthersName ELSE CATEGORIES[Min(hits)].name

DotPositions(name) == {i \in 1..Len(name) : name[i] = "."}

\* the extension as the claim words it: from the last '.', lower-cased
ExtensionFromLastDot(name) ==
  IF DotPositions(name) = {} THEN EmptyStr
  ELSE LowerStr(SubSeq(name, Max(DotPositions(name)), Len(name)))

\* the extension the code uses: from the last '.', lower-cased, unless that
\* '.' is the first or the last character of the name
ExtensionOfPathlib(name) ==
  IF DotPositions(name) = {} THEN EmptyStr
  ELSE LET d == Max(DotPositions(name))
       IN  IF d = 1 \/ d = Len(name) THEN EmptyStr
           ELSE LowerStr(SubSeq(name, d, Len(name)))

\* C4 as claimed: get_category equals the reference rule that takes the
\* extension from the last '.' of the name, for every name, leading-dot
\* names included.
C4_Original ==
  result # EmptyStr => result = FirstCategoryOf(ExtensionFromLastDot(file_name))

\* C4 amended: get_category is total and returns the first category, in
\* declared order, whose extension set contains the lower-cased substring
\* from the last '.' of the name, where the extension is empty when there is
\* no '.' or the last '.' is the first or the last character of the name;
\* 'Others' if no category contains it.
C4_Amended ==
  result # EmptyStr =>
    /\ result \in CategoryNames
    /\ result = FirstCategoryOf(ExtensionOfPathlib(file_name))

\* a name with two dots and an upper-case extension was classified
C4_Witness ==
  /\ file_name = <<"a", ".", "b", ".", "J", "P", "E", "G">>
  /\ result = N_Images

\* C5: a failure of mkdir, exists or move for one file of a commit run is
\* handled inside the loop: errors grows by exactly one, moved does not
\* change, the file is still at its original path, the loop goes on with
\* the entries not yet visited, organize() does not raise, and when the
\* loop is over every entry was visited and moved + errors is the number of
\* scan entries other than the organizer script.
C5_FailureIsolation ==
  /\ [][pc = "except" =>
          /\ stats'.errors = stats.errors + 1
          /\ stats'.moved = stats.moved
          /\ pc' = "for"
          /\ rest' = rest
          /\ RootPath(file_path) \in DOMAIN fsFiles'
          /\ fsFiles'[RootPath(file_path)] = start.files[RootPath(file_path)]]_vars
  /\ [](srcKind = "dir" => pc # "raised")
  /\ []((pc \in {"summary", "done"} /\ ~dry_run) =>
          /\ rest = {}
          /\ stats.moved + stats.errors = Cardinality(files \ {SelfName}))

\* a commit run that met two failures (a file named Others in the way of
\* the Others directory, and one I/O error) and still moved two files
C5_Witness ==
  /\ CommitRun
  /\ pc = "done"
  /\ stats.errors = 2
  /\ stats.moved = 2
  /\ OthersName \in files
  /\ RootPath(OthersName) \in DOMAIN fsFiles

\* C6 as claimed: every run on an existing source directory that has
\* returned has printed the statistics summary exactly once.
C6_Original ==
  (pc = "done" /\ srcKind = "dir") => summaries = 1

\* C6 amended: every run whose source directory exists eventually returns;
\* when it returns it has printed the summary exactly once if the scan
\* found at least one regular file, and not at all if it found none.
C6_Amended ==
  /\ (pc = "scan" /\ srcKind = "dir") ~> (pc = "done")
  /\ [](pc = "done" => summaries = IF files = {} THEN 0 ELSE 1)
  /\ [](summaries <= 1)

\* a commit run in which every file failed has printed its summary
C6_Witness ==
  /\ CommitRun
  /\ pc = "done"
  /\ summaries = 1
  /\ stats.moved = 0
  /\ stats.errors = 2
  /\ Cardinality(files) = 2

\* C7: when source_dir is not an existing directory the run ends in the
\* exception of the scan: no entry is processed, nothing is created or
\* moved, moved and errors stay 0 and no summary is printed.
C7_MissingSourceIsFatal ==
  (srcKind # "dir" /\ pc \notin {"idle", "scan"}) =>
    /\ pc = "raised"
    /\ stats = ZeroStats
    /\ summaries = 0
    /\ files = {}
    /\ fsFiles = start.files
    /\ fsDirs = {}

\* a commit run on a missing directory has raised
C7_Witness ==
  /\ srcKind = "missing"
  /\ ~dry_run
  /\ pc = "raised"

\* the current run is a finished commit run that followed a finished run
SecondCommitDone == pc = "done" /\ ~dry_run /\ prev.valid /\ prev.end = start

NoPreexistingCollisions ==
  \A f \in RootFiles(start.files) : SubPath(get_category(f), f) \notin DOMAIN start.files

\* the current run is a finished commit run that followed a finished preview
\* of the same directory content
CommitAfterPreviewDone ==
  /\ pc = "done"
  /\ ~dry_run
  /\ prev.valid
  /\ prev.dry_run
  /\ prev.start = start

\* C9 as claimed: without pre-existing collisions a preview and a commit
\* run started from the same directory content report the same moved count.
C9_Original ==
  (CommitAfterPreviewDone /\ NoPreexistingCollisions) =>
    stats.moved = prev.stats.moved

\* C9 amended: without pre-existing collisions the preview's moved count
\* equals the commit's moved count plus the commit's errors count, so the
\* two moved counts agree exactly when the commit run had no per-file error.
C9_Amended ==
  (CommitAfterPreviewDone /\ NoPreexistingCollisions) =>
    /\ prev.stats.moved = stats.moved + stats.errors
    /\ prev.stats.errors = 0

\* preview and commit of the same four files, no collision, no failure
C9_Witness ==
  /\ CommitAfterPreviewDone
  /\ NoPreexistingCollisions
  /\ stats.moved = 4
  /\ prev.stats.moved = 4
  /\ stats.errors = 0

\* the category directory of each name of RootNames, from the table of
\* section 6 of the specification
ExpectedDir(f) ==
  CASE f = N_a_jpg -> N_Images
    [] f = N_b_mp3 -> N_Audio
    [] f = N_report_txt -> N_Documents
    [] f = N_report_1_txt -> N_Documents
    [] f = SelfName -> N_Code
    [] OTHER -> OthersName

\* file f of the source directory now lies in its category directory under
\* its own name or an _<n> variant of it
PlacedInCategory(f) ==
  /\ RootPath(f) \notin DOMAIN fsFiles
  /\ \E q \in DOMAIN fsFiles :
       /\ Len(q) = 2
       /\ q[1] = ExpectedDir(f)
       /\ q[1] \in fsDirs
       /\ fsFiles[q] = start.files[RootPath(f)]
       /\ \/ q[2] = f
          \/ /\ SubPath(q[1], f) \in DOMAIN fsFiles
             /\ \E n \in 1..Cardinality(DOMAIN fsFiles) :
                  q[2] = RenamedName(Stem(f), n, Suffix(f))

\* a commit run on an existing directory is over and nothing failed
CleanCommitDone == pc = "done" /\ ~dry_run /\ srcKind = "dir" /\ stats.errors = 0

\* C10 as claimed: after a commit run without failure every regular file
\* that was directly under the source directory is in its category
\* directory and moved is the number of those files.
C10_Original ==
  CleanCommitDone =>
    /\ \A f \in RootFiles(start.files) : PlacedInCategory(f)
    /\ stats.moved = Cardinality(RootFiles(start.files))

\* C10 amended: the same for every regular file other than one named like
\* the organizer script (file_organizer.py), which stays where it is and is
\* not counted.
C10_Amended ==
  CleanCommitDone =>
    /\ \A f \in RootFiles(start.files) \ {SelfName} : PlacedInCategory(f)
    /\ stats.moved = Cardinality(RootFiles(start.files) \ {SelfName})
    /\ SelfName \in RootFiles(start.files) => RootPath(SelfName) \in DOMAIN fsFiles

\* the scenario of the specification: a.jpg, b.mp3, c.unknownext and d
C10_Witness ==
  /\ CleanCommitDone
  /\ RootFiles(start.files) = {N_a_jpg, N_b_mp3, N_c_unknownext, N_d}
  /\ stats.moved = 4
  /\ fsFiles[SubPath(N_Images, N_a_jpg)] = RootPath(N_a_jpg)
  /\ fsFiles[SubPath(N_Audio, N_b_mp3)] = RootPath(N_b_mp3)
  /\ fsFiles[SubPath(OthersName, N_c_unknownext)] = RootPath(N_c_unknownext)
  /\ fsFiles[SubPath(OthersName, N_d)] = RootPath(N_d)

\* C11 as claimed: the destination a preview decides for a file is the
\* collision-free path a commit run would compute from the same filesystem
\* state, and never names an existing path.
C11_Original ==
  (PreviewRun /\ file_path # EmptyStr) =>
    /\ destination = PrescribedName(fsFiles, category, file_path)
    /\ ~ Exists(fsFiles, category, destination)

\* C11 amended: a preview makes no existence check: the destination it
\* decides for a file is always <category>/<original name>, which is the
\* destination of a commit run exactly when that path does not exist, and
\* nothing is created.
C11_Amended ==
  (PreviewRun /\ file_path # EmptyStr) =>
    /\ category = ExpectedDir(file_path)
    /\ destination = file_path
    /\ base = EmptyStr /\ ext = EmptyStr /\ counter = 0
    /\ (destination = PrescribedName(fsFiles, category, file_path))
          <=> ~ Exists(fsFiles, category, destination)
    /\ fsFiles = start.files
    /\ fsDirs = start.dirs

\* a preview decided Documents/report.txt for report.txt although that path
\* exists
C11_Witness ==
  /\ PreviewRun
  /\ file_path = N_report_txt
  /\ destination = N_report_txt
  /\ Exists(fsFiles, category, destination)

\* the directory under source_dir in which the file with content id lies:
\* empty for source_dir itself
DirOf(fls, id) ==
  LET holders == {q \in DOMAIN fls : fls[q] = id}
  IN  IF holders = {} THEN <<"?">>
      ELSE LET q == CHOOSE h \in holders : TRUE
           IN  IF Len(q) = 2 THEN q[1] ELSE EmptyStr

\* two finished commit runs on the same directory content, none of them
\* disturbed by an I/O error of the environment
SameContentTwice ==
  /\ pc = "done"
  /\ ~dry_run
  /\ prev.valid
  /\ ~prev.dry_run
  /\ prev.start = start
  /\ faults = 0

\* both runs counted the same and left every file in the same directory
SameOutcome ==
  /\ stats.moved = prev.stats.moved
  /\ stats.errors = prev.stats.errors
  /\ \A p \in DOMAIN start.files :
       DirOf(fsFiles, start.files[p]) = DirOf(prev.end.files, start.files[p])

TableCategoryNames == {CATEGORIES[i].name : i \in 1..Len(CATEGORIES)}

\* C12 as claimed: whatever the scan order, a commit run on a fixed
\* directory content gives the same moved and errors counts and puts each
\* file in the same category directory, files named like a category
\* included.
C12_Original == SameContentTwice => SameOutcome

\* C12 amended: the same, provided no regular file of the source directory
\* is named like one of the seven categories of the table.
C12_Amended ==
  (SameContentTwice /\ RootFiles(start.files) \cap TableCategoryNames = {}) => SameOutcome

\* two runs on report.txt and report_1.txt next to an existing
\* Documents/report.txt took them in different orders: the names in
\* Documents differ, the counts and directories do not
C12_Witness ==
  /\ SameContentTwice
  /\ RootFiles(start.files) = {N_report_txt, N_report_1_txt, OthersName}
  /\ stats.moved = 2
  /\ stats.errors = 1
  /\ fsFiles # prev.end.files

\* C13: two interleaved commit runs can lose a file only through a call
\* that was suspended between its exists() test and its move: as long as
\* no call was suspended there, every move targets a path that does not
\* exist and every file of the initial content is held by exactly one path.
\* (That a file can be lost once a call is suspended there is C13_Witness.)
C13_RaceNeedsInterleaving ==
  ~preempted =>
    /\ pc = "move" => ~ Exists(fsFiles, category, destination)
    /\ other.pc = "move" => ~ Exists(fsFiles, other.category, other.destination)
    /\ \A p \in DOMAIN start.files : Cardinality(HoldersOf(p)) = 1

\* both runs are over, each reports one file moved, and report.txt is gone:
\* report_1.txt was moved onto the Documents/report_1.txt the other run had
\* just made of it
C13_Witness ==
  /\ preempted
  /\ pc = "done"
  /\ other.pc = "done"
  /\ stats.moved = 1
  /\ other.stats.moved = 1
  /\ stats.errors + other.stats.errors = 2
  /\ RootPath(N_report_txt) \in DOMAIN start.files
  /\ HoldersOf(RootPath(N_report_txt)) = {}
  /\ SubPath(N_Documents, N_report_1_txt) \in DOMAIN fsFiles
  /\ fsFiles[SubPath(N_Documents, N_report_1_txt)] = RootPath(N_report_1_txt)

\* C14: a scanned file named like the organizer script (the comparison is
\* on the name alone) stays at its original path in preview and in commit
\* runs, is never the file being placed, and is counted neither in moved
\* nor in errors.
C14_SelfExcluded ==
  (pc # "idle" /\ srcKind = "dir" /\ RootPath(SelfName) \in DOMAIN start.files) =>
    /\ RootPath(SelfName) \in DOMAIN fsFiles
    /\ fsFiles[RootPath(SelfName)] = start.files[RootPath(SelfName)]
    /\ file_path # SelfName
    /\ stats.moved + stats.errors <= Cardinality((files \ rest) \ {SelfName})
    /\ pc \in {"summary", "done"} =>
         stats.moved + stats.errors = Cardinality(files \ {SelfName})

\* a preview and then a commit run of a directory that holds
\* file_organizer.py and three other files: both count three
C14_Witness ==
  /\ CommitRun
  /\ pc = "done"
  /\ SelfName \in files
  /\ Cardinality(files) = 4
  /\ stats.moved = 3
  /\ prev.valid
  /\ prev.dry_run
  /\ prev.stats.moved = 3
  /\ RootPath(SelfName) \in DOMAIN fsFiles

\* main() has started a commit run
MainCommitStarted == ~dry_run /\ runs = 2

\* the commit run follows a finished preview of the same source and starts
\* from counters at 0: it counts only the entries it has visited itself
FreshAfterPreview ==
  /\ prev.valid
  /\ prev.dry_run
  /\ prev.start = start
  /\ prev.end = start
  /\ pc = "scan" => stats = ZeroStats
  /\ stats.moved + stats.errors <= Cardinality((files \ rest) \ {SelfName})

\* nothing was started after the preview and the filesystem is as it was
CancelledUnchanged ==
  /\ dry_run
  /\ runs = 1
  /\ pc = "done"
  /\ Snapshot = start

\* C15 as claimed: the commit run is started only after a finished preview
\* and the answer 'yes' or 'y'; any other answer starts nothing and leaves
\* the filesystem unchanged; the commit run has fresh counters.
C15_Original ==
  /\ MainCommitStarted =>
       /\ proceed.asked
       /\ proceed.text \in {A_yes, A_y}
       /\ FreshAfterPreview
  /\ (proceed.asked /\ proceed.text \notin {A_yes, A_y}) => CancelledUnchanged

\* the answers of Answers that read 'yes' or 'y' once blanks around them are
\* dropped and letters are lower-cased
AcceptedAnswers == {A_yes, A_y, A_Y, A_Yes_padded}

\* C15 amended: the same, where the answer counts as 'yes' or 'y' after
\* surrounding whitespace is stripped and it is lower-cased ('Y' and
\* ' Yes ' start the commit run as well).
C15_Amended ==
  /\ MainCommitStarted =>
       /\ proceed.asked
       /\ proceed.text \in AcceptedAnswers
       /\ FreshAfterPreview
  /\ (proceed.asked /\ proceed.text \notin AcceptedAnswers) => CancelledUnchanged

\* main() previewed two files, was answered ' Yes ' and its commit run moved
\* one of them and failed on the other
C15_Witness ==
  /\ MainCommitStarted
  /\ pc = "done"
  /\ proceed.text = A_Yes_padded
  /\ prev.stats.moved = 2
  /\ stats.moved = 1
  /\ stats.errors = 1

====
